---------------------------- MODULE Spec2Model ----------------------------
(***************************************************************************)
(* Visual comparison test suite (test_visual_comparison.py).               *)
(*                                                                         *)
(* Three state machines share this module:                                 *)
(*   SpecDiff / SpecScenario : VisualTester.compare_screenshots, one step  *)
(*                   per pixel of the scan.                                *)
(*   Spec / FairSpec : the pytest session running the parametrized         *)
(*                   test_page_screenshot_similarity cells.                *)
(*   SpecChecks    : the pytest session running the header / layout        *)
(*                   checks built on the extractors.                       *)
(***************************************************************************)
EXTENDS Integers, Sequences, FiniteSets, TLC

VARIABLES
    \* ---- compare_screenshots ----
    ref_path,           \* the image file at ref_path
    target_path,        \* the image file at target_path
    ref_img,            \* reference image (RGB), as opened from ref_path
    target_img,         \* target image (RGB), resized to ref_img.size if needed
    diff_img,           \* the difference visualisation being painted
    diff_path,          \* the image file at diff_path, None until saved
    total_pixels,
    different_pixels,
    max_diff,
    x, y,               \* loop variables of the scan
    result,             \* the returned dict, None before the return
    dpc                 \* position in compare_screenshots

VARIABLES
    \* ---- the pytest session over test_page_screenshot_similarity ----
    session,            \* "setup", "running", "finished"
    pages,              \* the page handles open in the browser
    cell,               \* index (in Cells) of the cell being run, 0 before the first
    pc,                 \* position in the test function
    exc,                \* the exception in flight, NoExc when there is none
    raised_at,          \* the statement that raised it (the traceback)
    page_ref,           \* locals of the test function
    page_target,
    cell_result,
    navigations,        \* the goto / wait_for_load_state calls made by this cell
    printed,            \* what this cell wrote to stdout
    files,              \* output directories and the artifacts in them
    report,             \* pytest's outcome of each cell
    calls,              \* how often pytest has called each cell
    exitstatus          \* the session's exit status, None while it runs

runVars == <<session, pages, cell, pc, exc, raised_at, page_ref, page_target,
             cell_result, navigations, printed, files, report, calls, exitstatus>>

VARIABLES
    \* ---- the pytest session over the header and layout checks ----
    csession,           \* "running", "finished"
    item,               \* index (in Collected) of the last check run, 0 before the first
    dom_ref,            \* the reference page that check loaded, None if it loads none
    dom_target,         \* the target page that check loaded
    longrepr,           \* how that check ended: passed, or the exception raised
    verdict             \* pytest's outcome per (test, viewport)

checkVars == <<csession, item, dom_ref, dom_target, longrepr, verdict>>

diffVars == <<ref_path, target_path, ref_img, target_img, diff_img, diff_path,
              total_pixels, different_pixels,
              max_diff, x, y, result, dpc>>

vars == <<diffVars, runVars, checkVars>>

\* Python's None (in the place of an object), and its stand-ins in the
\* place of a string
None == [none |-> TRUE]
NoExc == "NoExc"
Nowhere == "nowhere"

\* The value of the session's variables while compare_screenshots is studied
\* on its own, and of compare_screenshots' variables while the session is.
RunIdle ==
    /\ session = "idle" /\ pages = {} /\ cell = 0 /\ pc = "idle" /\ exc = NoExc
    /\ raised_at = Nowhere /\ page_ref = None /\ page_target = None
    /\ cell_result = None /\ navigations = <<>> /\ printed = <<>>
    /\ files = <<>> /\ report = <<>> /\ calls = <<>> /\ exitstatus = None

ChecksIdle ==
    /\ csession = "idle" /\ item = 0 /\ dom_ref = None /\ dom_target = None
    /\ longrepr = None /\ verdict = <<>>

DiffIdle ==
    /\ ref_path = None /\ target_path = None /\ ref_img = None
    /\ target_img = None /\ diff_img = None /\ diff_path = None
    /\ total_pixels = 0 /\ different_pixels = 0 /\ max_diff = 0
    /\ x = 0 /\ y = 0 /\ result = None /\ dpc = "idle"

-----------------------------------------------------------------------------
(* Bounds of the model *)

\* Images with at most MaxPixels pixels are enumerated exhaustively.
MaxPixels == 4

-----------------------------------------------------------------------------
(* Raster images *)

\* An image file: its size and its pixel content, stored as a base colour
\* and the pixels that deviate from it.  Pixel access goes through getpixel.
Coords(size) == (0 .. size[1] - 1) \X (0 .. size[2] - 1)

getpixel(img, c) == IF c \in DOMAIN img.patch THEN img.patch[c] ELSE img.base

BLACK == <<0, 0, 0>>
WHITE == <<255, 255, 255>>
RED   == <<255, 0, 0>>

EmptyPatch == [c \in {} |-> BLACK]

Uniform(size, colour) == [size |-> size, base |-> colour, patch |-> EmptyPatch]

\* Image.new('RGB', size): a fresh pixel buffer, all black, addressed row
\* by row.
Index(size, c) == c[2] * size[1] + c[1] + 1

NewImage(size) == [size |-> size, buf |-> [i \in 1 .. size[1] * size[2] |-> BLACK]]

\* diff_pixels[x, y] = colour
putpixel(img, c, colour) == [img EXCEPT !.buf[Index(img.size, c)] = colour]

SameSize(a, b) == a.size = b.size

\* reference == candidate pixel for pixel
SamePixels(a, b) ==
    /\ SameSize(a, b)
    /\ \A c \in Coords(a.size) : getpixel(a, c) = getpixel(b, c)

\* target_img.resize(ref_img.size, LANCZOS).  The resampling kernel is
\* normalised, so an image of one colour resamples to that colour; only such
\* targets are given a different size than the reference.
resize(img, size) == Uniform(size, img.base)

-----------------------------------------------------------------------------
(* compare_screenshots: the per-pixel arithmetic *)

DIFF_THRESHOLD == 30
SIMILARITY_THRESHOLD == 95

Abs(n) == IF n < 0 THEN -n ELSE n

\* (variant: the channel differences summed without abs)
PixelDiff_signed(ref_pixel, target_pixel) ==
    (ref_pixel[1] - target_pixel[1])
  + (ref_pixel[2] - target_pixel[2])
  + (ref_pixel[3] - target_pixel[3])

\* sum(abs(r - t) for r, t in zip(ref_pixel, target_pixel))
PixelDiff(ref_pixel, target_pixel) ==
    Abs(ref_pixel[1] - target_pixel[1])
  + Abs(ref_pixel[2] - target_pixel[2])
  + Abs(ref_pixel[3] - target_pixel[3])

\* (variant: the threshold itself counts as different)
IsDifferent_inclusive(diff) == diff >= DIFF_THRESHOLD

\* if diff > 30
IsDifferent(diff) == diff > DIFF_THRESHOLD

Max(a, b) == IF a >= b THEN a ELSE b

\* gray = sum(target_pixel) // 3
Gray(target_pixel) ==
    LET g == (target_pixel[1] + target_pixel[2] + target_pixel[3]) \div 3
    IN  <<g, g, g>>

\* (variant: the share of different pixels instead of similar ones)
SimilarityPercentage_ofDifferent(total, different) ==
    [num |-> different * 100, den |-> total]

\* ((total_pixels - different_pixels) / total_pixels) * 100, kept exact as
\* the fraction num / den (den > 0).  The float arithmetic of the source
\* agrees with the exact fraction on every comparison made here: k / n is
\* correctly rounded, and fl(0.95) * 100 rounds to 95.0.
SimilarityPercentage(total, different) ==
    [num |-> (total - different) * 100, den |-> total]

\* (variant: exactly 95 % does not pass)
Passed_strict(similarity) == similarity.num > SIMILARITY_THRESHOLD * similarity.den

\* similarity_percentage >= 95.0
Passed(similarity) == similarity.num >= SIMILARITY_THRESHOLD * similarity.den

\* The dict returned by compare_screenshots.
MakeResult(total, different, maxd) ==
    LET s == SimilarityPercentage(total, different)
    IN  [total_pixels          |-> total,
         different_pixels      |-> different,
         similarity_percentage |-> s,
         max_difference        |-> maxd,
         passed                |-> Passed(s)]

-----------------------------------------------------------------------------
(* Inputs of compare_screenshots *)

RefPalette    == {BLACK, <<40, 10, 0>>}
TargetPalette == {BLACK, <<40, 10, 0>>, <<10, 10, 10>>, <<10, 10, 11>>}

\* Image.open never yields an image with a zero dimension.
TinySizes == {s \in (1 .. MaxPixels) \X (1 .. MaxPixels) : s[1] * s[2] <= MaxPixels}

Painted(size, palette) ==
    {[size |-> size, base |-> BLACK, patch |-> f] : f \in [Coords(size) -> palette]}

\* every pair of small images of one size
SameSizePairs ==
    UNION {Painted(s, RefPalette) \X Painted(s, TargetPalette) : s \in TinySizes}

\* a small reference against a one-colour target of another size
ResizePairs ==
    UNION {Painted(s, RefPalette) \X
             {Uniform(t, col) : t \in TinySizes \ {s}, col \in TargetPalette}
           : s \in TinySizes}

\* 5x4 images: the first k pixels (row by row) of the target are white on a
\* black reference, so that 95 % similarity is met exactly at k = 1.
BlockSize == <<5, 4>>
RowMajor(size, k) == {c \in Coords(size) : c[2] * size[1] + c[1] < k}
BlockTarget(k) ==
    [size |-> BlockSize, base |-> BLACK,
     patch |-> [c \in RowMajor(BlockSize, k) |-> WHITE]]
BlockPairs ==
    {<<Uniform(BlockSize, BLACK), BlockTarget(k)>> : k \in 0 .. BlockSize[1] * BlockSize[2]}

ImagePairs == SameSizePairs \cup ResizePairs \cup BlockPairs

\* scenario C: 100x100 all-black reference, all-white candidate
ScenarioSize == <<100, 100>>
ScenarioCPair == <<Uniform(ScenarioSize, BLACK), Uniform(ScenarioSize, WHITE)>>

-----------------------------------------------------------------------------
(* compare_screenshots as a state machine *)

InitCompare(pair) ==
    /\ ref_path = pair[1]
    /\ target_path = pair[2]
    /\ ref_img = None
    /\ target_img = None
    /\ diff_img = None
    /\ diff_path = None
    /\ total_pixels = 0
    /\ different_pixels = 0
    /\ max_diff = 0
    /\ x = 0
    /\ y = 0
    /\ result = None
    /\ dpc = "open"

\* lines 132-148: open both files, resize the target, allocate the diff image
Prepare ==
    /\ dpc = "open"
    /\ ref_img' = ref_path
    /\ target_img' = IF ref_path.size # target_path.size
                     THEN resize(target_path, ref_path.size)
                     ELSE target_path
    /\ diff_img' = NewImage(ref_path.size)
    /\ total_pixels' = ref_path.size[1] * ref_path.size[2]
    /\ different_pixels' = 0
    /\ max_diff' = 0
    /\ x' = 0
    /\ y' = 0
    /\ dpc' = "scan"
    /\ UNCHANGED <<ref_path, target_path, diff_path, result>>

\* lines 150-166: one iteration of the inner loop, at pixel (x, y)
ScanPixel ==
    /\ dpc = "scan"
    /\ y < ref_img.size[2]
    /\ x < ref_img.size[1]
    /\ LET ref_pixel    == getpixel(ref_img, <<x, y>>)
           target_pixel == getpixel(target_img, <<x, y>>)
           diff         == PixelDiff(ref_pixel, target_pixel)
       IN  /\ max_diff' = Max(max_diff, diff)
           /\ IF IsDifferent(diff)
              THEN /\ different_pixels' = different_pixels + 1
                   /\ diff_img' = putpixel(diff_img, <<x, y>>, RED)
              ELSE /\ different_pixels' = different_pixels
                   /\ diff_img' = putpixel(diff_img, <<x, y>>, Gray(target_pixel))
    /\ IF x + 1 < ref_img.size[1]
       THEN x' = x + 1 /\ y' = y
       ELSE x' = 0 /\ y' = y + 1
    /\ UNCHANGED <<ref_path, target_path, ref_img, target_img, diff_path,
                   total_pixels, result, dpc>>

\* lines 168-178: save the diff image, compute the similarity, return
Finish ==
    /\ dpc = "scan"
    /\ y >= ref_img.size[2]
    /\ diff_path' = diff_img
    /\ result' = MakeResult(total_pixels, different_pixels, max_diff)
    /\ dpc' = "done"
    /\ UNCHANGED <<ref_path, target_path, ref_img, target_img, diff_img,
                   total_pixels, different_pixels, max_diff, x, y>>

InitDiff == RunIdle /\ ChecksIdle /\ \E pair \in ImagePairs : InitCompare(pair)

InitScenario == RunIdle /\ ChecksIdle /\ \E pair \in ImagePairs \cup {ScenarioCPair} : InitCompare(pair)

NextDiff ==
    \/ Prepare /\ UNCHANGED <<runVars, checkVars>>
    \/ ScanPixel /\ UNCHANGED <<runVars, checkVars>>
    \/ Finish /\ UNCHANGED <<runVars, checkVars>>

SpecDiff == InitDiff /\ [][NextDiff]_vars

SpecScenario == InitScenario /\ [][NextDiff]_vars


-----------------------------------------------------------------------------
(* Properties of compare_screenshots *)

PercentIs(similarity, p) == similarity.num = p * similarity.den

\* the pixels the loop has passed, from its position (x, y)
ScannedCount == y * ref_img.size[1] + x
Scanned == RowMajor(ref_img.size, ScannedCount)

\* the coordinates at which the two compared images differ by more than 30
Over30(a, b, region) ==
    {c \in region :
        Abs(getpixel(a, c)[1] - getpixel(b, c)[1])
      + Abs(getpixel(a, c)[2] - getpixel(b, c)[2])
      + Abs(getpixel(a, c)[3] - getpixel(b, c)[3]) > 30}

Exactly30(a, b, region) ==
    {c \in region :
        Abs(getpixel(a, c)[1] - getpixel(b, c)[1])
      + Abs(getpixel(a, c)[2] - getpixel(b, c)[2])
      + Abs(getpixel(a, c)[3] - getpixel(b, c)[3]) = 30}

\* C7: when the reference and candidate files are equal pixel for pixel
\* (same dimensions), compare_screenshots returns different_pixels = 0,
\* similarity_percentage = 100.0 and passed = true.
C7_IdenticalImages ==
    (dpc = "done" /\ SamePixels(ref_path, target_path)) =>
        /\ result.different_pixels = 0
        /\ PercentIs(result.similarity_percentage, 100)
        /\ result.passed = TRUE

\* a finished comparison of two equal images that hold two colours
C7_Witness ==
    /\ dpc = "done"
    /\ SamePixels(ref_path, target_path)
    /\ Cardinality({getpixel(ref_path, c) : c \in Coords(ref_path.size)}) = 2
    /\ result.different_pixels = 0

\* C8: when the files have one size and every pixel differs by more than the
\* threshold, compare_screenshots returns different_pixels = total_pixels,
\* similarity_percentage = 0.0 and passed = false; the 100x100 all-black
\* reference against the all-white candidate gives different_pixels = 10000.
C8_AllDifferent ==
    /\ (/\ dpc = "done"
        /\ SameSize(ref_path, target_path)
        /\ Over30(ref_path, target_path, Coords(ref_path.size)) = Coords(ref_path.size))
       => /\ result.different_pixels = result.total_pixels
          /\ PercentIs(result.similarity_percentage, 0)
          /\ result.passed = FALSE
    /\ (dpc = "done" /\ <<ref_path, target_path>> = ScenarioCPair)
       => /\ result.different_pixels = 10000
          /\ PercentIs(result.similarity_percentage, 0)
          /\ result.passed = FALSE

\* a finished comparison in which every pixel differs by more than 30, one of
\* them with channel differences of both signs
C8_Witness ==
    /\ dpc = "done"
    /\ SameSize(ref_path, target_path)
    /\ Over30(ref_path, target_path, Coords(ref_path.size)) = Coords(ref_path.size)
    /\ \E c \in Coords(ref_path.size) :
          getpixel(ref_path, c) = <<40, 10, 0>> /\ getpixel(target_path, c) = <<10, 10, 10>>
    /\ result.total_pixels >= 2
    /\ result.different_pixels = result.total_pixels

\* C9: different_pixels is exactly the number of coordinates passed so far
\* at which the summed absolute channel difference exceeds 30 (a sum of
\* exactly 30 is not counted), and the scan ends only after every coordinate
\* of the reference grid has been passed, in order, none skipped.
C9_ExactCount ==
    /\ dpc = "scan" =>
          /\ different_pixels = Cardinality(Over30(ref_img, target_img, Scanned))
          /\ x < ref_img.size[1]
          /\ y <= ref_img.size[2]
    /\ dpc = "done" =>
          /\ ScannedCount = ref_img.size[1] * ref_img.size[2]
          /\ result.different_pixels =
                Cardinality(Over30(ref_img, target_img, Coords(ref_img.size)))

\* a finished scan that met a pixel at exactly 30 and a pixel above 30
C9_Witness ==
    /\ dpc = "done"
    /\ Exactly30(ref_img, target_img, Coords(ref_img.size)) # {}
    /\ result.different_pixels = 1
    /\ result.total_pixels >= 3

\* C10: during the scan 0 <= different_pixels <= pixels scanned so far <=
\* total_pixels; the returned total_pixels is reference width * height,
\* similarity_percentage is (total - different) / total * 100, and passed
\* holds exactly when 100 * (total - different) >= 95 * total.
C10_SelfConsistent ==
    /\ dpc \in {"scan", "done"} =>
          /\ 0 <= different_pixels
          /\ different_pixels <= ScannedCount
          /\ ScannedCount <= total_pixels
    /\ dpc = "done" =>
          /\ result.total_pixels = ref_path.size[1] * ref_path.size[2]
          /\ result.different_pixels = different_pixels
          /\ result.similarity_percentage.den > 0
          /\ result.similarity_percentage.num * result.total_pixels
               = (result.total_pixels - result.different_pixels) * 100
                   * result.similarity_percentage.den
          /\ result.passed \in BOOLEAN
          /\ result.passed <=>
               (100 * (result.total_pixels - result.different_pixels)
                  >= 95 * result.total_pixels)

\* a result at exactly 95 % similarity, which passes
C10_Witness ==
    /\ dpc = "done"
    /\ result.total_pixels = 20
    /\ result.different_pixels = 1
    /\ result.passed = TRUE

-----------------------------------------------------------------------------
(* The test matrix *)

\* Number of cells of the matrix (in pytest's order) that the session runs.
MaxCells == 3

VIEWPORT_NAMES == <<"mobile", "tablet", "desktop", "wide">>

VIEWPORTS ==
    [n \in {"mobile", "tablet", "desktop", "wide"} |->
        CASE n = "mobile"  -> [width |-> 375,  height |-> 667]
          [] n = "tablet"  -> [width |-> 768,  height |-> 1024]
          [] n = "desktop" -> [width |-> 1440, height |-> 900]
          [] n = "wide"    -> [width |-> 1920, height |-> 1080]]

TEST_PAGES == <<
    <<"i", "n", "d", "e", "x", ".", "h", "t", "m", "l">>,
    <<"p", "u", "b", "l", "i", "c", "a", "t", "i", "o", "n", "s", "/", "i", "n", "d", "e", "x", ".", "h", "t", "m", "l">>,
    <<"r", "e", "s", "e", "a", "r", "c", "h", "/", "i", "n", "d", "e", "x", ".", "h", "t", "m", "l">>,
    <<"s", "o", "f", "t", "w", "a", "r", "e", "/", "i", "n", "d", "e", "x", ".", "h", "t", "m", "l">>,
    <<"s", "t", "u", "d", "e", "n", "t", "s", "/", "i", "n", "d", "e", "x", ".", "h", "t", "m", "l">>,
    <<"t", "e", "a", "c", "h", "i", "n", "g", "/", "i", "n", "d", "e", "x", ".", "h", "t", "m", "l">>,
    <<"s", "h", "o", "r", "t", "-", "c", "o", "u", "r", "s", "e", "s", "/", "i", "n", "d", "e", "x", ".", "h", "t", "m", "l">>,
    <<"t", "a", "l", "k", "s", "/", "i", "n", "d", "e", "x", ".", "h", "t", "m", "l">>,
    <<"s", "e", "r", "v", "i", "c", "e", "/", "i", "n", "d", "e", "x", ".", "h", "t", "m", "l">>
>>

\* The two stacked parametrize decorators: every page at every viewport.
\* pytest exhausts the upper decorator (page_path) fastest.
Matrix ==
    [i \in 1 .. Len(VIEWPORT_NAMES) * Len(TEST_PAGES) |->
        [page_path     |-> TEST_PAGES[((i - 1) % Len(TEST_PAGES)) + 1],
         viewport_name |-> VIEWPORT_NAMES[((i - 1) \div Len(TEST_PAGES)) + 1]]]

Cells == SubSeq(Matrix, 1, MaxCells)

\* str.replace(old, new), old non-empty
RECURSIVE Replace(_, _, _)
Replace(str, old, new) ==
    IF Len(str) < Len(old) THEN str
    ELSE IF SubSeq(str, 1, Len(old)) = old
         THEN new \o Replace(SubSeq(str, Len(old) + 1, Len(str)), old, new)
         ELSE <<Head(str)>> \o Replace(Tail(str), old, new)

\* (variant: the page is named by the stem of its file, "index" for every
\* page of the catalogue)
PageName_stem(page_path) ==
    LET slashes == {i \in 1 .. Len(page_path) : page_path[i] = "/"}
        start   == IF slashes = {} THEN 1
                   ELSE 1 + CHOOSE i \in slashes : \A j \in slashes : j <= i
    IN  SubSeq(page_path, start, Len(page_path) - 5)

\* page_name = page_path.replace("/", "_").replace(".html", "")
PageName(page_path) ==
    Replace(Replace(page_path, <<"/">>, <<"_">>), <<".", "h", "t", "m", "l">>, <<>>)

\* output_dir = OUTPUT_DIR / page_name / viewport_name
OutputDir(c) == <<PageName(c.page_path), c.viewport_name>>

\* the output directory of each cell of the session
CellDir == [i \in 1 .. Len(Cells) |-> OutputDir(Cells[i])]

\* the output directory of each cell of the whole matrix
MatrixDir == [i \in 1 .. Len(Matrix) |-> OutputDir(Matrix[i])]

-----------------------------------------------------------------------------
(* compare_screenshots as one call *)

\* The outcome of the whole pixel loop over ref and tgt (one size): the
\* count of different pixels, the largest difference, the painted image.
ScanAll(ref, tgt) ==
    LET diffAt(c) == PixelDiff(getpixel(ref, c), getpixel(tgt, c))
        At(i)     == <<(i - 1) % ref.size[1], (i - 1) \div ref.size[1]>>
    IN  [different |-> Cardinality({c \in Coords(ref.size) : IsDifferent(diffAt(c))}),
         maxd      |-> CHOOSE m \in {0} \cup {diffAt(c) : c \in Coords(ref.size)} :
                          \A c \in Coords(ref.size) : diffAt(c) <= m,
         img       |-> [size |-> ref.size,
                        buf  |-> [i \in 1 .. ref.size[1] * ref.size[2] |->
                                    IF IsDifferent(diffAt(At(i))) THEN RED
                                    ELSE Gray(getpixel(tgt, At(i)))]]]

compare_screenshots(ref_file, target_file) ==
    LET tgt == IF ref_file.size # target_file.size
               THEN resize(target_file, ref_file.size)
               ELSE target_file
        acc == ScanAll(ref_file, tgt)
    IN  [diff   |-> acc.img,
         result |-> MakeResult(ref_file.size[1] * ref_file.size[2],
                               acc.different, acc.maxd)]

\* the step-by-step scan and the single call agree
ScanAgrees ==
    dpc = "done" =>
        /\ result = compare_screenshots(ref_path, target_path).result
        /\ diff_path = compare_screenshots(ref_path, target_path).diff

-----------------------------------------------------------------------------
(* The session: pytest calling test_page_screenshot_similarity per cell *)

\* what a full-page screenshot may show: the reference site renders black,
\* the target site the same or a colour that differs by more than 30
Renderings(origin) ==
    IF origin = "reference"
    THEN {Uniform(<<1, 1>>, BLACK)}
    ELSE {Uniform(<<1, 1>>, BLACK), Uniform(<<1, 1>>, <<10, 10, 11>>)}

\* exceptions of the rendering provider and of the file system
NavigationErrors == {"PlaywrightError", "TimeoutError"}

NoFiles == [reference |-> None, target |-> None, diff |-> None, comparison_result |-> None]

Handle(i, origin) == [cell |-> i, origin |-> origin]

\* (variant: pytest run with -x)
ExitFirst_on == TRUE

\* pytest.main([__file__, "-v", "--html=...", "--self-contained-html"]): no -x,
\* so the session goes on after a failed test.
ExitFirst == FALSE

InitRun ==
    /\ DiffIdle
    /\ ChecksIdle
    /\ session = "setup"
    /\ pages = {}
    /\ cell = 0
    /\ pc = "idle"
    /\ exc = NoExc
    /\ raised_at = Nowhere
    /\ page_ref = None
    /\ page_target = None
    /\ cell_result = None
    /\ navigations = <<>>
    /\ printed = <<>>
    /\ files = <<>>
    /\ report = [i \in 1 .. Len(Cells) |-> "notrun"]
    /\ calls = [i \in 1 .. Len(Cells) |-> 0]
    /\ exitstatus = None

\* the session-scoped browser fixture: chromium.launch
LaunchBrowser ==
    /\ session = "setup"
    /\ session' = "running"
    /\ UNCHANGED <<pages, cell, pc, exc, raised_at, page_ref, page_target,
                   cell_result, navigations, printed, files, report, calls,
                   exitstatus>>

\* pytest calls the next parametrized test
CallTest ==
    /\ session = "running"
    /\ pc = "idle"
    /\ cell < Len(Cells)
    /\ ~(ExitFirst /\ \E i \in 1 .. Len(Cells) : report[i] \notin {"notrun", "passed"})
    /\ cell' = cell + 1
    /\ calls' = [calls EXCEPT ![cell + 1] = @ + 1]
    /\ pc' = "new_ref"
    /\ exc' = NoExc
    /\ raised_at' = Nowhere
    /\ page_ref' = None
    /\ page_target' = None
    /\ cell_result' = None
    /\ navigations' = <<>>
    /\ printed' = <<>>
    /\ UNCHANGED <<session, pages, files, report, exitstatus>>

\* an exception raised before the try block leaves the function at once
RaiseOutside(e) ==
    /\ exc' = e
    /\ raised_at' = pc
    /\ pc' = "end"

\* (variant: the exception is swallowed on the way out)
RaiseInside_swallowed(e) ==
    /\ exc' = NoExc
    /\ raised_at' = pc
    /\ pc' = "close_ref"

\* an exception raised inside the try block runs the finally clause
RaiseInside(e) ==
    /\ exc' = e
    /\ raised_at' = pc
    /\ pc' = "close_ref"

\* line 422: page_ref = browser.new_page(viewport=viewport)
NewPageRef ==
    /\ pc = "new_ref"
    /\ \/ /\ page_ref' = Handle(cell, "reference")
          /\ pages' = pages \cup {Handle(cell, "reference")}
          /\ pc' = "new_target"
          /\ UNCHANGED <<exc, raised_at>>
       \/ /\ RaiseOutside("PlaywrightError")
          /\ UNCHANGED <<page_ref, pages>>
    /\ UNCHANGED <<session, cell, page_target, cell_result, navigations, printed,
                   files, report, calls, exitstatus>>

\* line 423: page_target = browser.new_page(viewport=viewport)
NewPageTarget ==
    /\ pc = "new_target"
    /\ \/ /\ page_target' = Handle(cell, "target")
          /\ pages' = pages \cup {Handle(cell, "target")}
          /\ pc' = "mkdir"
          /\ UNCHANGED <<exc, raised_at>>
       \/ /\ RaiseOutside("PlaywrightError")
          /\ UNCHANGED <<page_target, pages>>
    /\ UNCHANGED <<session, cell, page_ref, cell_result, navigations, printed,
                   files, report, calls, exitstatus>>

\* lines 426-428: output_dir.mkdir(parents=True, exist_ok=True)
MakeOutputDir ==
    /\ pc = "mkdir"
    /\ \/ /\ files' = IF CellDir[cell] \in DOMAIN files THEN files
                      ELSE [d \in (DOMAIN files) \cup {CellDir[cell]} |->
                              IF d \in DOMAIN files THEN files[d] ELSE NoFiles]
          /\ pc' = "goto_ref"
          /\ UNCHANGED <<exc, raised_at>>
       \/ /\ RaiseOutside("OSError")
          /\ UNCHANGED files
    /\ UNCHANGED <<session, pages, cell, page_ref, page_target, cell_result,
                   navigations, printed, report, calls, exitstatus>>

\* A call on a page inside the try block: it returns, or raises one of errs.
\* goto and wait_for_load_state carry the provider's default timeout, so the
\* call always ends.
PageCall(at, next, what, errs) ==
    /\ pc = at
    /\ navigations' = Append(navigations, what)
    /\ \/ pc' = next /\ UNCHANGED <<exc, raised_at>>
       \/ \E e \in errs : RaiseInside(e)
    /\ UNCHANGED <<session, pages, cell, page_ref, page_target, cell_result,
                   printed, files, report, calls, exitstatus>>

\* line 432: page_ref.goto(...)
GotoRef == PageCall("goto_ref", "goto_target", <<"goto", "reference">>, NavigationErrors)

\* line 433: page_target.goto(...)
GotoTarget == PageCall("goto_target", "wait_ref", <<"goto", "target">>, NavigationErrors)

\* line 436: page_ref.wait_for_load_state("networkidle")
WaitRef == PageCall("wait_ref", "wait_target", <<"wait", "reference">>, {"TimeoutError"})

\* line 437: page_target.wait_for_load_state("networkidle")
WaitTarget == PageCall("wait_target", "shot_ref", <<"wait", "target">>, {"TimeoutError"})

\* page.screenshot(path=..., full_page=True) into slot `name` of the cell's directory
Screenshot(at, next, name) ==
    /\ pc = at
    /\ \/ /\ \E img \in Renderings(name) :
               files' = [files EXCEPT ![CellDir[cell]][name] = img]
          /\ pc' = next
          /\ UNCHANGED <<exc, raised_at>>
       \/ /\ RaiseInside("PlaywrightError")
          /\ UNCHANGED files
    /\ UNCHANGED <<session, pages, cell, page_ref, page_target, cell_result,
                   navigations, printed, report, calls, exitstatus>>

\* line 444
ScreenshotRef == Screenshot("shot_ref", "shot_target", "reference")

\* line 445
ScreenshotTarget == Screenshot("shot_target", "compare", "target")

\* lines 448-450: result = visual_tester.compare_screenshots(...)
Compare ==
    /\ pc = "compare"
    /\ \/ LET dir == CellDir[cell]
              out == compare_screenshots(files[dir].reference, files[dir].target)
          IN  /\ files' = [files EXCEPT ![dir].diff = out.diff]
              /\ cell_result' = out.result
              /\ pc' = "save"
              /\ UNCHANGED <<exc, raised_at>>
       \/ /\ RaiseInside("OSError")
          /\ UNCHANGED <<files, cell_result>>
    /\ UNCHANGED <<session, pages, cell, page_ref, page_target, navigations,
                   printed, report, calls, exitstatus>>

\* lines 453-455: json.dump(result, f)
SaveResult ==
    /\ pc = "save"
    /\ \/ /\ files' = [files EXCEPT ![CellDir[cell]].comparison_result = cell_result]
          /\ pc' = "print"
          /\ UNCHANGED <<exc, raised_at>>
       \/ /\ RaiseInside("OSError")
          /\ UNCHANGED files
    /\ UNCHANGED <<session, pages, cell, page_ref, page_target, cell_result,
                   navigations, printed, report, calls, exitstatus>>

\* (variant: a similarity below the threshold is asserted)
ShortfallRaises_assert(res) == IF res.passed THEN NoExc ELSE "AssertionError"

\* lines 460-463: a result that did not pass is only printed
ShortfallRaises(res) == NoExc

\* lines 457-463: print the similarity, and a warning when not passed
PrintResult ==
    /\ pc = "print"
    /\ printed' = IF cell_result.passed THEN <<"similar">>
                  ELSE <<"similar", "visual difference detected">>
    /\ IF ShortfallRaises(cell_result) = NoExc
       THEN pc' = "close_ref" /\ UNCHANGED <<exc, raised_at>>
       ELSE RaiseInside(ShortfallRaises(cell_result))
    /\ UNCHANGED <<session, pages, cell, page_ref, page_target, cell_result,
                   navigations, files, report, calls, exitstatus>>

\* line 466 (finally): page_ref.close()
CloseRef ==
    /\ pc = "close_ref"
    /\ pages' = pages \ {page_ref}
    /\ pc' = "close_target"
    /\ UNCHANGED <<session, cell, exc, raised_at, page_ref, page_target,
                   cell_result, navigations, printed, files, report, calls,
                   exitstatus>>

\* line 467 (finally): page_target.close()
CloseTarget ==
    /\ pc = "close_target"
    /\ pages' = pages \ {page_target}
    /\ pc' = "end"
    /\ UNCHANGED <<session, cell, exc, raised_at, page_ref, page_target,
                   cell_result, navigations, printed, files, report, calls,
                   exitstatus>>

\* the test function has returned or raised: pytest records the outcome
RecordOutcome ==
    /\ pc = "end"
    /\ report' = [report EXCEPT ![cell] = IF exc = NoExc THEN "passed" ELSE exc]
    /\ pc' = "idle"
    /\ UNCHANGED <<session, pages, cell, exc, raised_at, page_ref, page_target,
                   cell_result, navigations, printed, files, calls, exitstatus>>

NoMoreTests ==
    \/ cell = Len(Cells)
    \/ ExitFirst /\ \E i \in 1 .. Len(Cells) : report[i] \notin {"notrun", "passed"}

\* the session ends: the browser fixture closes the browser (and with it
\* every page still open), pytest sets the exit status
SessionFinish ==
    /\ session = "running"
    /\ pc = "idle"
    /\ NoMoreTests
    /\ pages' = {}
    /\ session' = "finished"
    /\ exitstatus' = IF \A i \in 1 .. Len(Cells) : report[i] \in {"passed", "notrun"}
                     THEN 0 ELSE 1
    /\ UNCHANGED <<cell, pc, exc, raised_at, page_ref, page_target, cell_result,
                   navigations, printed, files, report, calls>>

Next ==
    \/ LaunchBrowser /\ UNCHANGED <<diffVars, checkVars>>
    \/ CallTest /\ UNCHANGED <<diffVars, checkVars>>
    \/ NewPageRef /\ UNCHANGED <<diffVars, checkVars>>
    \/ NewPageTarget /\ UNCHANGED <<diffVars, checkVars>>
    \/ MakeOutputDir /\ UNCHANGED <<diffVars, checkVars>>
    \/ GotoRef /\ UNCHANGED <<diffVars, checkVars>>
    \/ GotoTarget /\ UNCHANGED <<diffVars, checkVars>>
    \/ WaitRef /\ UNCHANGED <<diffVars, checkVars>>
    \/ WaitTarget /\ UNCHANGED <<diffVars, checkVars>>
    \/ ScreenshotRef /\ UNCHANGED <<diffVars, checkVars>>
    \/ ScreenshotTarget /\ UNCHANGED <<diffVars, checkVars>>
    \/ Compare /\ UNCHANGED <<diffVars, checkVars>>
    \/ SaveResult /\ UNCHANGED <<diffVars, checkVars>>
    \/ PrintResult /\ UNCHANGED <<diffVars, checkVars>>
    \/ CloseRef /\ UNCHANGED <<diffVars, checkVars>>
    \/ CloseTarget /\ UNCHANGED <<diffVars, checkVars>>
    \/ RecordOutcome /\ UNCHANGED <<diffVars, checkVars>>
    \/ SessionFinish /\ UNCHANGED <<diffVars, checkVars>>

Spec == InitRun /\ [][Next]_vars

\* The session is one thread and every call it makes returns or raises, so
\* it keeps taking steps until it has finished.
FairSpec == Spec /\ WF_vars(Next)

-----------------------------------------------------------------------------
(* Properties of the session *)

CellIds == 1 .. Len(Cells)

\* the test function of the current cell has returned or raised
CellEnded == pc \in {"end", "idle"}

LoadSteps == {"goto_ref", "goto_target", "wait_ref", "wait_target"}

Failures == {"PlaywrightError", "TimeoutError", "OSError", "AssertionError"}

\* the comparison record stored in cell i's directory, None if there is none
StoredResult(i) ==
    IF CellDir[i] \in DOMAIN files
    THEN files[CellDir[i]].comparison_result
    ELSE None

StoredDiff(i) ==
    IF CellDir[i] \in DOMAIN files
    THEN files[CellDir[i]].diff
    ELSE None

\* C1: both page handles of a cell are closed on every exit path of the
\* cell, so no handle opened by a cell is open once that cell has ended.
C1_HandlesReleased ==
    \A h \in pages : h.cell = cell /\ ~CellEnded

\* C2: whatever the outcomes of the cells, every cell of the matrix is called
\* exactly once and run to its end, a failed cell does not keep a later one
\* from running, and the session finishes.
C2_CellsIndependent ==
    /\ [](\A i \in CellIds : calls[i] <= 1)
    /\ <>(/\ session = "finished"
          /\ \A i \in CellIds : calls[i] = 1 /\ report[i] # "notrun")

\* a finished session whose first cell failed to load and whose last passed
C2_Witness ==
    /\ session = "finished"
    /\ report[1] = "TimeoutError"
    /\ report[Len(Cells)] = "passed"
    /\ \A i \in CellIds : calls[i] = 1

\* C3: a cell whose pages loaded, whose screenshots were taken and whose
\* comparison was stored passes whether or not the DiffResult passed, and
\* the exit status is 0 exactly when no cell failed, so a similarity
\* shortfall alone never makes the cell or the session fail.
C3_ShortfallNotFatal ==
    /\ \A i \in CellIds :
          (report[i] # "notrun" /\ StoredResult(i) # None) => report[i] = "passed"
    /\ (pc \in {"close_ref", "close_target", "end"} /\ StoredResult(cell) # None)
          => exc = NoExc
    /\ session = "finished" =>
          /\ exitstatus = 0 <=> (\A i \in CellIds : report[i] \notin Failures)
          /\ (\A i \in CellIds : StoredResult(i) # None) => exitstatus = 0

\* a finished session in which no similarity passed, with exit status 0
C3_Witness ==
    /\ session = "finished"
    /\ \A i \in CellIds :
          /\ StoredResult(i) # None
          /\ StoredResult(i).passed = FALSE
          /\ report[i] = "passed"
    /\ exitstatus = 0

NoRepeat(seq) == \A i, j \in 1 .. Len(seq) : seq[i] = seq[j] => i = j

C4_AfterLoadFailure ==
    raised_at \in LoadSteps =>
        /\ exc \in NavigationErrors
        /\ pc \in {"close_ref", "close_target", "end", "idle"}
        /\ cell_result = None
        /\ StoredResult(cell) = None
        /\ StoredDiff(cell) = None
        /\ printed = <<>>
        /\ pc = "idle" => report[cell] = exc

\* C4: a navigation or network-idle wait that fails or times out ends the
\* call (the cell goes on to its end), the cell is recorded with the load
\* error (not as passed, not as an assertion failure), no goto or wait is
\* made twice, and no DiffResult, diff image or comparison record is stored.
C4_LoadFailure ==
    /\ [](C4_AfterLoadFailure /\ NoRepeat(navigations))
    /\ (pc \in LoadSteps) ~> CellEnded

\* a cell recorded with the timeout of its network-idle wait
C4_Witness ==
    /\ pc = "idle"
    /\ raised_at = "wait_target"
    /\ report[cell] = "TimeoutError"
    /\ StoredResult(cell) = None
    /\ Len(navigations) = 4

\* the artifacts in cell i's directory, None while the directory is missing
Slot(i) == IF CellDir[i] \in DOMAIN files THEN files[CellDir[i]] ELSE None

\* (page_path, viewport_name) -> output directory is injective over the
\* whole matrix TEST_PAGES x VIEWPORTS
DirsInjective ==
    \A i, j \in 1 .. Len(Matrix) : i # j => MatrixDir[i] # MatrixDir[j]

\* the handles the running cell holds are the ones it opened itself
OwnHandles ==
    /\ page_ref \in {None, Handle(cell, "reference")}
    /\ page_target \in {None, Handle(cell, "target")}

\* a step writes to no directory but the running cell's
OwnSlotOnly ==
    \A i \in CellIds : i # cell' => Slot(i)' = Slot(i)

-----------------------------------------------------------------------------
(* The extractors and the checks built on them *)

\* computed backgroundColor values
DARK_GRAY   == <<"r", "g", "b", "(", "1", "8", ",", " ", "1", "8", ",", " ", "1", "8", ")">>
WHITE_BG    == <<"r", "g", "b", "(", "2", "5", "5", ",", " ", "2", "5", "5", ",", " ", "2", "5", "5", ")">>
TRANSPARENT == <<"r", "g", "b", "a", "(", "0", ",", " ", "0", ",", " ", "0", ",", " ", "0", ")">>

\* serialisations that share most of their characters with DARK_GRAY
HALF_GRAY   == <<"r", "g", "b", "a", "(", "1", "8", ",", " ", "1", "8", ",", " ", "1", "8", ",", " ", "0", ".", "5", ")">>
REDDISH     == <<"r", "g", "b", "(", "1", "1", "8", ",", " ", "1", "8", ",", " ", "1", "8", ")">>
BLUISH      == <<"r", "g", "b", "(", "1", "8", ",", " ", "1", "8", ",", " ", "1", "8", "1", ")">>

BackgroundColors == {DARK_GRAY, WHITE_BG, TRANSPARENT, HALF_GRAY, REDDISH, BLUISH}

\* (variant: only the channel list of the needle, without "rgb(" and ")",
\* is looked for)
Contains_channels(needle, hay) ==
    LET inner == SubSeq(needle, 5, Len(needle) - 1)
    IN  \E i \in 0 .. Len(hay) - Len(inner) :
            SubSeq(hay, i + 1, i + Len(inner)) = inner

\* needle in hay (Python's substring test)
Contains(needle, hay) ==
    \E i \in 0 .. Len(hay) - Len(needle) : SubSeq(hay, i + 1, i + Len(needle)) = needle

\* A rendered page: for each selector the first matching element, None when
\* document.querySelector finds none.  An element carries its computed
\* styles, its bounding rectangle and whether it is visible.
Element(position, backgroundColor, left, visible) ==
    [styles  |-> [position |-> position, backgroundColor |-> backgroundColor],
     rect    |-> [left |-> left],
     visible |-> visible]

PageWith(header, aside, article) ==
    [header |-> header, aside |-> aside, article |-> article]

Headers ==
    {None} \cup {Element(p, b, 0, TRUE) : p \in {"fixed", "static"}, b \in BackgroundColors}

Columns ==
    {None} \cup {Element("static", TRANSPARENT, l, v) : l \in {0, 300}, v \in BOOLEAN}

\* get_computed_styles: null when no element matches, else its styles
get_computed_styles(page, selector) ==
    IF page[selector] = None THEN None ELSE page[selector].styles

\* get_element_position: null when no element matches, else its rectangle
get_element_position(page, selector) ==
    IF page[selector] = None THEN None ELSE page[selector].rect

\* check_element_visible: locator(selector).first.is_visible(), False on error
check_element_visible(page, selector) ==
    IF page[selector] = None THEN FALSE ELSE page[selector].visible

\* how a test function ends
Pass == [type |-> "passed", reason |-> "", observed |-> None]
AssertionError(reason, observed) ==
    [type |-> "AssertionError", reason |-> reason, observed |-> observed]
\* subscripting None: 'NoneType' object is not subscriptable
TypeError == [type |-> "TypeError", reason |-> "NoneType is not subscriptable", observed |-> None]

\* lines 225-232.  The message of each assert subscripts the styles again, so
\* it raises TypeError when the styles are None.
test_header_background_color(page_r, page_t) ==
    LET ref_styles    == get_computed_styles(page_r, "header")
        target_styles == get_computed_styles(page_t, "header")
    IN  IF ~(ref_styles # None /\ Contains(DARK_GRAY, ref_styles.backgroundColor))
        THEN IF ref_styles = None THEN TypeError
             ELSE AssertionError("Reference header not dark gray",
                                 ref_styles.backgroundColor)
        ELSE IF ~(target_styles # None /\ Contains(DARK_GRAY, target_styles.backgroundColor))
        THEN IF target_styles = None THEN TypeError
             ELSE AssertionError("Target header not dark gray",
                                 target_styles.backgroundColor)
        ELSE Pass

\* lines 246-248: styles["position"] is read without a test for None
test_header_fixed_position_desktop(page_t) ==
    LET styles == get_computed_styles(page_t, "header")
    IN  IF styles = None THEN TypeError
        ELSE IF styles.position = "fixed" THEN Pass
        ELSE AssertionError("Header should be fixed", styles.position)

\* lines 349-361
test_homepage_two_column_layout(page_t) ==
    LET aside_visible   == check_element_visible(page_t, "aside")
        article_visible == check_element_visible(page_t, "article")
        aside_pos       == get_element_position(page_t, "aside")
        article_pos     == get_element_position(page_t, "article")
    IN  IF ~aside_visible THEN AssertionError("Sidebar not visible", None)
        ELSE IF ~article_visible THEN AssertionError("Article not visible", None)
        ELSE IF aside_pos # None /\ article_pos # None
        THEN IF aside_pos.left < article_pos.left THEN Pass
             ELSE AssertionError("Aside should be to the left of article", None)
        ELSE Pass

\* the scrollbar allowance of the overflow check, in pixels
SCROLLBAR_ALLOWANCE == 15

\* a rendered page as the overflow check sees it: document.body.scrollWidth
PageOfWidth(scrollWidth) == [body |-> [scrollWidth |-> scrollWidth]]

\* the widths a document may render at: around each viewport's width and
\* around its width plus the allowance
ScrollWidths ==
    UNION {{VIEWPORTS[v].width, VIEWPORTS[v].width + 10, VIEWPORTS[v].width + 15,
            VIEWPORTS[v].width + 16, VIEWPORTS[v].width + 30}
           : v \in {"mobile", "tablet", "desktop", "wide"}}

\* (variant: the allowance is exclusive)
test_content_readable_exclusive(page_t, viewport_name) ==
    LET body_width     == page_t.body.scrollWidth
        viewport_width == VIEWPORTS[viewport_name].width
    IN  IF body_width < viewport_width + SCROLLBAR_ALLOWANCE THEN Pass
        ELSE AssertionError("Horizontal overflow", body_width)

\* lines 496-501
test_content_readable_at_all_sizes(page_t, viewport_name) ==
    LET body_width     == page_t.body.scrollWidth
        viewport_width == VIEWPORTS[viewport_name].width
    IN  IF body_width <= viewport_width + SCROLLBAR_ALLOWANCE THEN Pass
        ELSE AssertionError("Horizontal overflow", body_width)

-----------------------------------------------------------------------------
(* The session: pytest running the parametrized checks *)

WidthAtLeast(w) == SelectSeq(VIEWPORT_NAMES, LAMBDA n : VIEWPORTS[n].width >= w)

\* line 215: VIEWPORTS.items()
HeaderBackgroundViewports == VIEWPORT_NAMES

\* (variant: the fixed-position check is not gated)
HeaderFixedViewports_all == VIEWPORT_NAMES

\* line 237: [(k, v) for k, v in VIEWPORTS.items() if v["width"] >= 992]
HeaderFixedViewports == WidthAtLeast(992)

\* line 339: [(k, v) for k, v in VIEWPORTS.items() if v["width"] >= 640]
TwoColumnViewports == WidthAtLeast(640)

\* line 487: VIEWPORTS.items()
ContentReadableViewports == VIEWPORT_NAMES

CheckNames == {"test_header_background_color",
               "test_header_fixed_position_desktop",
               "test_homepage_two_column_layout",
               "test_content_readable_at_all_sizes"}

ViewportSet == {"mobile", "tablet", "desktop", "wide"}

Params(test, viewports) == [i \in 1 .. Len(viewports) |-> <<test, viewports[i]>>]

\* the test items pytest collects, in file order
Collected ==
    Params("test_header_background_color", HeaderBackgroundViewports)
    \o Params("test_header_fixed_position_desktop", HeaderFixedViewports)
    \o Params("test_homepage_two_column_layout", TwoColumnViewports)
    \o Params("test_content_readable_at_all_sizes", ContentReadableViewports)

InitChecks ==
    /\ DiffIdle
    /\ RunIdle
    /\ csession = "running"
    /\ item = 0
    /\ dom_ref = None
    /\ dom_target = None
    /\ longrepr = None
    /\ verdict = [k \in CheckNames \X ViewportSet |-> "notrun"]

\* pytest runs the next item, which ends as `how`, and records it
RunItem(test, page_r, page_t, how) ==
    /\ csession = "running"
    /\ item < Len(Collected)
    /\ Collected[item + 1][1] = test
    /\ item' = item + 1
    /\ dom_ref' = page_r
    /\ dom_target' = page_t
    /\ longrepr' = how
    /\ verdict' = [verdict EXCEPT ![Collected[item + 1]] =
                      IF how.type = "passed" THEN "passed" ELSE "failed"]
    /\ UNCHANGED csession

\* lines 216-235: both pages are opened, queried, and closed in the finally
HeaderBackgroundColor ==
    \E hr \in Headers, ht \in Headers :
        LET page_r == PageWith(hr, None, None)
            page_t == PageWith(ht, None, None)
        IN  RunItem("test_header_background_color", page_r, page_t,
                    test_header_background_color(page_r, page_t))

\* lines 238-250
HeaderFixedPositionDesktop ==
    \E ht \in Headers :
        LET page_t == PageWith(ht, None, None)
        IN  RunItem("test_header_fixed_position_desktop", None, page_t,
                    test_header_fixed_position_desktop(page_t))

\* lines 340-363
HomepageTwoColumnLayout ==
    \E as \in Columns, ar \in Columns :
        LET page_t == PageWith(Element("fixed", DARK_GRAY, 0, TRUE), as, ar)
        IN  RunItem("test_homepage_two_column_layout", None, page_t,
                    test_homepage_two_column_layout(page_t))

\* lines 488-503: the page is opened at the item's viewport
ContentReadableAtAllSizes ==
    /\ item < Len(Collected)
    /\ \E body_width \in ScrollWidths :
          LET page_t == PageOfWidth(body_width)
          IN  RunItem("test_content_readable_at_all_sizes", None, page_t,
                      test_content_readable_at_all_sizes(page_t, Collected[item + 1][2]))

\* every collected item has run
ChecksFinish ==
    /\ csession = "running"
    /\ item = Len(Collected)
    /\ csession' = "finished"
    /\ UNCHANGED <<item, dom_ref, dom_target, longrepr, verdict>>

NextChecks ==
    \/ HeaderBackgroundColor /\ UNCHANGED <<diffVars, runVars>>
    \/ HeaderFixedPositionDesktop /\ UNCHANGED <<diffVars, runVars>>
    \/ HomepageTwoColumnLayout /\ UNCHANGED <<diffVars, runVars>>
    \/ ContentReadableAtAllSizes /\ UNCHANGED <<diffVars, runVars>>
    \/ ChecksFinish /\ UNCHANGED <<diffVars, runVars>>

SpecChecks == InitChecks /\ [][NextChecks]_vars

-----------------------------------------------------------------------------
(* Properties of the checks *)

\* the check that ran last
LastTest == Collected[item][1]

\* the element the last check is built on is missing in a page it queried
ElementAbsent ==
    \/ /\ LastTest = "test_header_background_color"
       /\ dom_ref.header = None \/ dom_target.header = None
    \/ /\ LastTest = "test_header_fixed_position_desktop"
       /\ dom_target.header = None
    \/ /\ LastTest = "test_homepage_two_column_layout"
       /\ dom_target.aside = None \/ dom_target.article = None

\* failure reasons that say the element is missing
NotFoundReasons == {"element not found", "Sidebar not visible", "Article not visible"}

\* C5: when the selector a check is built on matches no element, the
\* extractors return None and the check (header background colour, header
\* fixed position, aside left of article) ends as a failed assertion that
\* reports the missing element; it does not end in another error and does
\* not pass.
C5_AbsentElementFails ==
    (item > 0 /\ ElementAbsent) =>
        /\ longrepr.type = "AssertionError"
        /\ longrepr.reason \in NotFoundReasons
        /\ verdict[Collected[item]] = "failed"

\* C6: the fixed-position header check runs exactly at the viewports of
\* width >= 992 and the two-column check exactly at those of width >= 640;
\* at any other viewport the check never runs and has no failed verdict.
C6_GatedChecksSkipped ==
    /\ \A v \in ViewportSet :
          /\ VIEWPORTS[v].width < 992 =>
                verdict[<<"test_header_fixed_position_desktop", v>>] = "notrun"
          /\ VIEWPORTS[v].width < 640 =>
                verdict[<<"test_homepage_two_column_layout", v>>] = "notrun"
    /\ verdict[<<"test_header_fixed_position_desktop", "mobile">>] = "notrun"
    /\ csession = "finished" =>
          \A v \in ViewportSet :
             /\ VIEWPORTS[v].width >= 992 =>
                   verdict[<<"test_header_fixed_position_desktop", v>>] # "notrun"
             /\ VIEWPORTS[v].width >= 640 =>
                   verdict[<<"test_homepage_two_column_layout", v>>] # "notrun"
             /\ verdict[<<"test_header_background_color", v>>] # "notrun"

\* a finished session in which the gated checks failed wherever they ran
C6_Witness ==
    /\ csession = "finished"
    /\ verdict[<<"test_header_fixed_position_desktop", "mobile">>] = "notrun"
    /\ verdict[<<"test_header_fixed_position_desktop", "tablet">>] = "notrun"
    /\ verdict[<<"test_header_fixed_position_desktop", "desktop">>] = "failed"
    /\ verdict[<<"test_header_fixed_position_desktop", "wide">>] = "failed"
    /\ verdict[<<"test_homepage_two_column_layout", "mobile">>] = "notrun"
    /\ verdict[<<"test_homepage_two_column_layout", "tablet">>] = "failed"
    /\ verdict[<<"test_header_background_color", "mobile">>] = "failed"

\* the last check was the header background-colour check and both pages
\* have a header
HeaderColoursObserved ==
    /\ item > 0
    /\ LastTest = "test_header_background_color"
    /\ dom_ref.header # None
    /\ dom_target.header # None

OverflowChecked ==
    /\ item > 0
    /\ LastTest = "test_content_readable_at_all_sizes"

\* C12: at every viewport the overflow check passes exactly when the
\* document's scrollWidth is at most the viewport's width plus 15; at width
\* 1440 the scrollWidths 1450 and 1455 pass and 1470 fails.
C12_OverflowAllowance ==
    OverflowChecked =>
        LET body_width     == dom_target.body.scrollWidth
            viewport_name  == Collected[item][2]
            viewport_width == VIEWPORTS[viewport_name].width
            passed         == verdict[Collected[item]] = "passed"
        IN  /\ passed <=> (body_width <= viewport_width + 15)
            /\ passed <=> (longrepr.type = "passed")
            /\ ~passed => /\ verdict[Collected[item]] = "failed"
                          /\ longrepr = AssertionError("Horizontal overflow", body_width)
            /\ viewport_width = 1440 =>
                   /\ body_width \in {1450, 1455} => passed
                   /\ body_width = 1470 => ~passed

\* the desktop page is exactly 15 pixels wider than its viewport and passes
C12_Witness ==
    /\ OverflowChecked
    /\ Collected[item][2] = "desktop"
    /\ dom_target.body.scrollWidth = 1455
    /\ verdict[Collected[item]] = "passed"

=============================================================================
